---- MODULE Spec2Model ----
(***************************************************************************)
(* Model of ChIP-seq/make_macs2_xls.py: the MacsXLS peak-file class, its   *)
(* sort_on/update_order/with_broad_option members and the xls_for_macs2    *)
(* workbook emitter.  Text is modelled as TLA+ strings, character by       *)
(* character; Python values (str, int, None) are modelled as the records   *)
(* PyStr, PyInt and PyNone so that values of different Python types can    *)
(* be compared.                                                            *)
(***************************************************************************)
EXTENDS Integers, Sequences, FiniteSets, TLC

VARIABLES
    input,      \* the lines of the MACS output file handed to MacsXLS(fp=...)
    name_arg,   \* the name handed to MacsXLS(name=...), PyNone when left out
    pc,         \* "start" before construction, "loaded", or "load_failed"
    error,      \* the exception the last operation raised ("" when it returned)
    macs,       \* the MacsXLS object (meaningful when pc = "loaded")
    xls,        \* the workbook last returned by xls_for_macs2
    last,       \* the last operation and its arguments
    exit_status,\* the exit status of a run of main(), PyNone while it runs
    saved       \* the workbooks main() has written with save_as_xls

vars == <<input, name_arg, pc, error, macs, xls, last, exit_status, saved>>

----------------------------------------------------------------------------
(* Bounds of the model *)

MaxHeader == 2

MaxRows == 3

----------------------------------------------------------------------------
(* Python values *)

PyNone == [t |-> "none", n |-> 0, s |-> ""]

PyStr(str) == [t |-> "str", n |-> 0, s |-> str]

PyInt(i) == [t |-> "int", n |-> i, s |-> ""]

----------------------------------------------------------------------------
(* Python string methods *)

Whitespace == {" ", "\t", "\n", "\r"}

CharAt(str, i) == SubSeq(str, i, i)

StartsWith(str, prefix) ==
    /\ Len(str) >= Len(prefix)
    /\ SubSeq(str, 1, Len(prefix)) = prefix

\* str[k:]
From(str, k) == SubSeq(str, k + 1, Len(str))

RECURSIVE LStrip(_)
LStrip(str) ==
    IF Len(str) > 0 /\ CharAt(str, 1) \in Whitespace
    THEN LStrip(SubSeq(str, 2, Len(str)))
    ELSE str

RECURSIVE RStrip(_)
RStrip(str) ==
    IF Len(str) > 0 /\ CharAt(str, Len(str)) \in Whitespace
    THEN RStrip(SubSeq(str, 1, Len(str) - 1))
    ELSE str

\* str.strip()
Strip(str) == RStrip(LStrip(str))

\* str.find(c) + 1: the position of the first occurrence of character c in
\* str, 0 if there is none.
Find(str, c) ==
    LET hits == {i \in 1..Len(str) : CharAt(str, i) = c}
    IN  IF hits = {} THEN 0 ELSE CHOOSE i \in hits : \A j \in hits : i <= j

\* str.split(delim): every delimiter separates two fields, empty ones kept.
RECURSIVE Split(_, _)
Split(str, delim) ==
    LET k == Find(str, delim)
    IN  IF k = 0 THEN <<str>>
        ELSE <<SubSeq(str, 1, k - 1)>> \o Split(SubSeq(str, k + 1, Len(str)), delim)

\* The length of the run of non-whitespace characters str starts with.
RECURSIVE WordLen(_, _)
WordLen(str, i) ==
    IF i > Len(str) \/ CharAt(str, i) \in Whitespace THEN i - 1
    ELSE WordLen(str, i + 1)

\* str.split(): the runs of non-whitespace characters.
RECURSIVE SplitWords(_)
SplitWords(str) ==
    LET rest == LStrip(str)
        k == WordLen(rest, 1)
    IN  IF Len(rest) = 0 THEN <<>>
        ELSE <<SubSeq(rest, 1, k)>> \o SplitWords(SubSeq(rest, k + 1, Len(rest)))

Contains(seq, x) == \E i \in 1..Len(seq) : seq[i] = x

----------------------------------------------------------------------------
(* TabFile: the tabular record store (share/TabFile.py).  A TabFile is a   *)
(* list of column names and a list of rows; a row is the list of its       *)
(* values, one per column.  "present" is FALSE for Python's None.          *)

NoTabFile == [present |-> FALSE, columns |-> <<>>, rows |-> <<>>]

\* TabFile(column_names=columns)
TabFile(columns) == [present |-> TRUE, columns |-> columns, rows |-> <<>>]

Digits == "0123456789"

IsNumeral(str) ==
    /\ Len(str) > 0
    /\ \A i \in 1..Len(str) : Find(Digits, CharAt(str, i)) > 0

RECURSIVE StrToInt(_)
StrToInt(str) ==
    IF Len(str) = 0 THEN 0
    ELSE 10 * StrToInt(SubSeq(str, 1, Len(str) - 1))
         + (Find(Digits, CharAt(str, Len(str))) - 1)

\* A field of a data line becomes an integer when it reads as one, and
\* stays a string otherwise.
ConvertToType(field) ==
    IF IsNumeral(field) THEN PyInt(StrToInt(field)) ELSE PyStr(field)

RECURSIVE PadTo(_, _)
PadTo(values, n) ==
    IF Len(values) >= n THEN values ELSE PadTo(Append(values, PyStr("")), n)

\* TabFile.append(tabdata=...): the line is split on tabs, each field is
\* converted, and the row has one value per column.
TabFileAppend(data, tabdata) ==
    LET fields == Split(tabdata, "\t")
        values == [i \in 1..Len(fields) |-> ConvertToType(fields[i])]
    IN  [data EXCEPT !.rows = Append(@, PadTo(values, Len(data.columns)))]

\* The position of the column called name (0 when there is none).
RECURSIVE ColumnIndex(_, _, _)
ColumnIndex(columns, name, i) ==
    IF i > Len(columns) THEN 0
    ELSE IF columns[i] = name THEN i
    ELSE ColumnIndex(columns, name, i + 1)

\* line[name] for a row of the table
Lookup(columns, row, name) == row[ColumnIndex(columns, name, 1)]

----------------------------------------------------------------------------
(* class MacsXLS *)

VersionPrefix == "# This file is generated by MACS version "

NamePrefix == "# name = "

CommandPrefix == "# Command line: "

\* The object under construction before the first line is read.
NewMacsXLS(name) ==
    [name |-> name, macs_version |-> PyNone, command_line |-> PyNone,
     header |-> <<>>, data |-> NoTabFile]

\* The loop keeping header lines as they were read, not stripped
ReadLineKeepingRaw(self, rawline) ==
    LET line == Strip(rawline)
    IN  IF StartsWith(line, "#") \/ line = ""
        THEN LET h == [self EXCEPT !.header = Append(@, rawline)]
             IN  IF StartsWith(line, VersionPrefix)
                 THEN [h EXCEPT !.macs_version = PyStr(SplitWords(line)[9])]
                 ELSE IF self.name = PyNone /\ StartsWith(line, NamePrefix)
                 THEN [h EXCEPT !.name = PyStr(From(line, Len(NamePrefix)))]
                 ELSE IF StartsWith(line, CommandPrefix)
                 THEN [h EXCEPT !.command_line = PyStr(From(line, 16))]
                 ELSE h
        ELSE IF ~self.data.present
             THEN [self EXCEPT !.data = TabFile(<<"order">> \o Split(line, "\t"))]
             ELSE [self EXCEPT !.data = TabFileAppend(@, "\t" \o line)]

\* The loop taking the name from every name line, also when a name is set
ReadLineLastNameWins(self, rawline) ==
    LET line == Strip(rawline)
    IN  IF StartsWith(line, "#") \/ line = ""
        THEN LET h == [self EXCEPT !.header = Append(@, line)]
             IN  IF StartsWith(line, VersionPrefix)
                 THEN [h EXCEPT !.macs_version = PyStr(SplitWords(line)[9])]
                 ELSE IF StartsWith(line, NamePrefix)
                 THEN [h EXCEPT !.name = PyStr(From(line, Len(NamePrefix)))]
                 ELSE IF StartsWith(line, CommandPrefix)
                 THEN [h EXCEPT !.command_line = PyStr(From(line, 16))]
                 ELSE h
        ELSE IF ~self.data.present
             THEN [self EXCEPT !.data = TabFile(<<"order">> \o Split(line, "\t"))]
             ELSE [self EXCEPT !.data = TabFileAppend(@, "\t" \o line)]

\* One pass of the loop "for line in fp" of MacsXLS.__init__.
ReadLine(self, rawline) ==
    LET line == Strip(rawline)
    IN  IF StartsWith(line, "#") \/ line = ""
        THEN LET h == [self EXCEPT !.header = Append(@, line)]
             IN  IF StartsWith(line, VersionPrefix)
                 THEN [h EXCEPT !.macs_version = PyStr(SplitWords(line)[9])]
                 ELSE IF self.name = PyNone /\ StartsWith(line, NamePrefix)
                 THEN [h EXCEPT !.name = PyStr(From(line, Len(NamePrefix)))]
                 ELSE IF StartsWith(line, CommandPrefix)
                 THEN [h EXCEPT !.command_line = PyStr(From(line, 16))]
                 ELSE h
        ELSE IF ~self.data.present
             THEN [self EXCEPT !.data = TabFile(<<"order">> \o Split(line, "\t"))]
             ELSE [self EXCEPT !.data = TabFileAppend(@, "\t" \o line)]

RECURSIVE ReadLines(_, _, _)
ReadLines(self, fp, i) ==
    IF i > Len(fp) THEN self ELSE ReadLines(ReadLine(self, fp[i]), fp, i + 1)

\* update_order numbering the rows from 0: "= i" for "= i+1".
UpdateOrderFromZero(data) ==
    LET k == ColumnIndex(data.columns, "order", 1)
    IN  [data EXCEPT !.rows =
            [i \in 1..Len(data.rows) |-> [data.rows[i] EXCEPT ![k] = PyInt(i - 1)]]]

\* MacsXLS.update_order: row i (0-based) gets order = i+1.
UpdateOrder(data) ==
    LET k == ColumnIndex(data.columns, "order", 1)
    IN  [data EXCEPT !.rows =
            [i \in 1..Len(data.rows) |-> [data.rows[i] EXCEPT ![k] = PyInt(i)]]]

VersionError == "Exception: Failed to extract MACS version, not a MACS output file?"

LenOfNoneError == "TypeError: object of type 'NoneType' has no len()"

\* MacsXLS.__init__(fp=fp, name=name): the exception raised ("" when the
\* constructor returns) and the object built.
MacsXLS(fp, name) ==
    LET self == ReadLines(NewMacsXLS(name), fp, 1)
    IN  IF self.macs_version = PyNone
        THEN [raised |-> VersionError, self |-> self]
        ELSE IF ~self.data.present
        THEN [raised |-> LenOfNoneError, self |-> self]
        ELSE [raised |-> "", self |-> [self EXCEPT !.data = UpdateOrder(@)]]

\* with_broad_option without the test for MACS 1.*
WithBroadOptionAnyVersion(self) ==
    IF self.command_line # PyNone
    THEN Contains(SplitWords(self.command_line.s), "--broad")
    ELSE ~Contains(self.data.columns, "abs_summit")

\* with_broad_option testing for MACS 1.0 only: '1.0' for '1.'
WithBroadOptionOnlyMacs1Dot0(self) ==
    IF StartsWith(self.macs_version.s, "1.0")
    THEN FALSE
    ELSE IF self.command_line # PyNone
    THEN Contains(SplitWords(self.command_line.s), "--broad")
    ELSE ~Contains(self.data.columns, "abs_summit")

\* MacsXLS.with_broad_option
WithBroadOption(self) ==
    IF StartsWith(self.macs_version.s, "1.")
    THEN FALSE
    ELSE IF self.command_line # PyNone
    THEN Contains(SplitWords(self.command_line.s), "--broad")
    ELSE ~Contains(self.data.columns, "abs_summit")

----------------------------------------------------------------------------
(* Ordering of Python 2 values: integers by value, strings character by   *)
(* character, and every integer before every string.  Ascii lists the      *)
(* characters the input lines are written in, in the order of their codes. *)

Ascii ==
    "\t !#$%&'()*+,-./0123456789:;<=>?@ABCDEFGHIJKLMNOPQRSTUVWXYZ[]^_abcdefghijklmnopqrstuvwxyz{|}~"

Ord(c) == Find(Ascii, c)

RECURSIVE StrLess(_, _)
StrLess(a, b) ==
    IF Len(b) = 0 THEN FALSE
    ELSE IF Len(a) = 0 THEN TRUE
    ELSE IF CharAt(a, 1) # CharAt(b, 1) THEN Ord(CharAt(a, 1)) < Ord(CharAt(b, 1))
    ELSE StrLess(SubSeq(a, 2, Len(a)), SubSeq(b, 2, Len(b)))

PyLess(a, b) ==
    IF a.t = "int" /\ b.t = "int" THEN a.n < b.n
    ELSE IF a.t = "str" /\ b.t = "str" THEN StrLess(a.s, b.s)
    ELSE a.t = "int" /\ b.t = "str"

PyLessEq(a, b) == a = b \/ PyLess(a, b)

\* The orders in which the rows numbered in S can follow one another with
\* their keys never decreasing (never increasing when reverse is set): a
\* row comes first when no other row of S has to come before it.
RECURSIVE Orders(_, _, _)
Orders(S, keys, reverse) ==
    IF S = {} THEN {<<>>}
    ELSE LET Before(i, j) == IF reverse THEN PyLess(keys[j], keys[i])
                                        ELSE PyLess(keys[i], keys[j])
             first == {i \in S : \A j \in S : ~Before(j, i)}
         IN  UNION {{<<i>> \o rest : rest \in Orders(S \ {i}, keys, reverse)} :
                      i \in first}

\* TabFile.sort(key, reverse): the rows in an order in which the keys do not
\* decrease (do not increase when reverse is set).  Rows with equal keys may
\* come out in any order the underlying sort gives them, so the result is
\* the set of the orders possible.
TabFileSort(rows, columns, column, reverse) ==
    LET keys == [i \in 1..Len(rows) |-> Lookup(columns, rows[i], column)]
    IN  {[i \in 1..Len(rows) |-> rows[p[i]]] :
            p \in Orders(1..Len(rows), keys, reverse)}

KeyError(column) == "KeyError: " \o column

\* MacsXLS.sort_on(column, reverse): the exception raised, "" when the call
\* returns.  Looking up a column the rows do not have raises KeyError.
SortOnRaises(self, column) ==
    IF Len(self.data.rows) > 0 /\ ~Contains(self.data.columns, column)
    THEN KeyError(column)
    ELSE ""

\* The value of sort_on's parameter "reverse=True": what was passed, True
\* when the argument was left out.
Reverse(reverse_arg) ==
    IF reverse_arg = "omitted" THEN TRUE ELSE reverse_arg = "True"

\* sort_on calling update_order before the sort, not after it
SortOnUpdatingFirst(self, column, reverse) ==
    IF SortOnRaises(self, column) # ""
    THEN {self}
    ELSE {[self EXCEPT !.data.rows = rows] :
            rows \in TabFileSort(UpdateOrder(self.data).rows, self.data.columns,
                                 column, reverse)}

\* sort_on without its call of update_order
SortOnWithoutUpdate(self, column, reverse) ==
    IF SortOnRaises(self, column) # ""
    THEN {self}
    ELSE {[self EXCEPT !.data.rows = rows] :
            rows \in TabFileSort(self.data.rows, self.data.columns, column, reverse)}

\* MacsXLS.sort_on(column, reverse): the objects the call may leave: the
\* rows sorted on the column, then the 'order' column updated.
SortOn(self, column, reverse) ==
    IF SortOnRaises(self, column) # ""
    THEN {self}
    ELSE {[self EXCEPT !.data = UpdateOrder([self.data EXCEPT !.rows = rows])] :
            rows \in TabFileSort(self.data.rows, self.data.columns, column, reverse)}

----------------------------------------------------------------------------
(* simple_xls: the workbook abstraction (share/simple_xls.py).  A sheet is *)
(* a title and a grid of cells addressed by column letter and row number;  *)
(* the grid is kept as the list of its rows, each the list of its cells    *)
(* from column A on, a cell nothing was written to being PyNone.  A        *)
(* workbook is the list of its named sheets in the order they were added.  *)
(* Cell styles are left out.                                               *)

Letters == "ABCDEFGHIJKLMNOPQRSTUVWXYZ"

\* The number of the column a letter names: A is 1.
ColumnNumber(letter) == Find(Letters, letter)

ColumnLetter(number) == CharAt(Letters, number)

RECURSIVE IntToStr(_)
IntToStr(i) ==
    IF i < 10 THEN CharAt(Digits, i + 1)
    ELSE IntToStr(i \div 10) \o CharAt(Digits, (i % 10) + 1)

\* A new sheet; the title is a Python value (the data sheet's may be None).
XLSWorkSheet(title) == [title |-> title, cells |-> <<>>]

\* The value of the cell, PyNone when nothing was written there.
Cell(sheet, letter, row) ==
    LET c == ColumnNumber(letter)
    IN  IF row <= Len(sheet.cells) /\ c <= Len(sheet.cells[row])
        THEN sheet.cells[row][c]
        ELSE PyNone

LastRow(sheet) == Len(sheet.cells)

NextRow(sheet) == LastRow(sheet) + 1

RECURSIVE Blank(_, _)
Blank(cells, n) == IF Len(cells) >= n THEN cells ELSE Blank(Append(cells, PyNone), n)

RECURSIVE BlankRows(_, _)
BlankRows(rows, n) == IF Len(rows) >= n THEN rows ELSE BlankRows(Append(rows, <<>>), n)

\* write_row(row, data=values): the values go into the row from column A on.
WriteRow(sheet, row, values) ==
    LET rows == BlankRows(sheet.cells, row)
    IN  [sheet EXCEPT !.cells =
            [rows EXCEPT ![row] = values \o SubSeq(@, Len(values) + 1, Len(@))]]

\* write_row(row, text=...): the text is split on tabs, one cell per item.
WriteRowText(sheet, row, text) ==
    LET items == Split(text, "\t")
    IN  WriteRow(sheet, row, [i \in 1..Len(items) |-> PyStr(items[i])])

AppendRow(sheet, values) == WriteRow(sheet, NextRow(sheet), values)

AppendRowText(sheet, text) == WriteRowText(sheet, NextRow(sheet), text)

\* One value written to the cell at column number c of a row.
WriteCell(sheet, c, row, value) ==
    LET rows == BlankRows(sheet.cells, row)
    IN  [sheet EXCEPT !.cells =
            [rows EXCEPT ![row] = [Blank(@, c) EXCEPT ![c] = value]]]

\* write_column(letter, data=values, from_row=...): the values go down the
\* column from from_row on.
RECURSIVE WriteColumnFrom(_, _, _, _, _)
WriteColumnFrom(sheet, letter, values, from_row, i) ==
    IF i > Len(values) THEN sheet
    ELSE WriteColumnFrom(
            WriteCell(sheet, ColumnNumber(letter), from_row + i - 1, values[i]),
            letter, values, from_row, i + 1)

WriteColumn(sheet, letter, values, from_row) ==
    WriteColumnFrom(sheet, letter, values, from_row, 1)

\* write_column(letter, text=...): the text is split on newlines, one cell
\* per line, from row 1 on.
WriteColumnText(sheet, letter, text) ==
    LET items == Split(text, "\n")
    IN  WriteColumn(sheet, letter, [i \in 1..Len(items) |-> PyStr(items[i])], 1)

\* write_column(letter, fill=..., from_row=...): the same value in every
\* row from from_row down to the last row of the sheet.
FillColumn(sheet, letter, fill, from_row) ==
    LET n == LastRow(sheet) - from_row + 1
    IN  IF n <= 0 THEN sheet
        ELSE WriteColumn(sheet, letter, [i \in 1..n |-> PyStr(fill)], from_row)

\* A blank cell put into a row at column number c, the cells from there on
\* moving one to the right.
ShiftRow(cells, c) ==
    IF Len(cells) < c THEN cells
    ELSE SubSeq(cells, 1, c - 1) \o <<PyNone>> \o SubSeq(cells, c, Len(cells))

RECURSIVE ShiftRows(_, _, _)
ShiftRows(rows, c, i) ==
    IF i > Len(rows) THEN rows
    ELSE ShiftRows([rows EXCEPT ![i] = ShiftRow(@, c)], c, i + 1)

\* insert_column(letter, text=...): the columns from the letter on move one
\* to the right, and the text is written at the top of the new column.
InsertColumn(sheet, letter, text) ==
    WriteColumnText(
        [sheet EXCEPT !.cells = ShiftRows(@, ColumnNumber(letter), 1)],
        letter, text)

\* The formula of a cell with '?' replaced by the number of its row and '#'
\* by the letter of its column.
RECURSIVE Substitute(_, _, _)
Substitute(str, letter, row) ==
    IF Len(str) = 0 THEN ""
    ELSE LET c == CharAt(str, 1)
             out == IF c = "?" THEN IntToStr(row)
                    ELSE IF c = "#" THEN letter
                    ELSE c
         IN  out \o Substitute(SubSeq(str, 2, Len(str)), letter, row)

\* render_cell: a formula (a string starting with '=') has its row and
\* column placeholders filled in; any other value is rendered as it is.
RenderCell(sheet, letter, row) ==
    LET v == Cell(sheet, letter, row)
    IN  IF v.t = "str" /\ StartsWith(v.s, "=")
        THEN PyStr(Substitute(v.s, letter, row))
        ELSE v

\* XLSWorkBook.add_work_sheet(name, title)
AddWorkSheet(book, name, sheet) == Append(book, [name |-> name, sheet |-> sheet])

\* xls.worksheet[name]
WorkSheet(book, name) ==
    book[CHOOSE i \in 1..Len(book) : book[i].name = name].sheet

----------------------------------------------------------------------------
(* xls_for_macs2 *)

OnlyMacs2Error == "Exception: Only handles output from MACS 2.0*"

BroadError == "Exception: Handling --broad output not implemented"

legends_text ==
    "order\tSorting order FE\n"
    \o "chr\tChromosome location of binding region\n"
    \o "start\tStart coordinate of binding region\n"
    \o "end\tEnd coordinate of binding region\n"
    \o "summit-100\tSummit - 100bp\n"
    \o "summit+100\tSummit + 100bp\n"
    \o "summit-1\tSummit of binding region - 1\n"
    \o "summit\tSummit of binding region\n"
    \o "length\tLength of binding region\n"
    \o "abs_summit\tCoordinate of region summit\n"
    \o "pileup\tNumber of non-degenerate and position corrected reads at summit\n"
    \o "-LOG10(pvalue)\tTransformed Pvalue -log10(Pvalue) for the binding region (e.g. if Pvalue=1e-10, then this value should be 10)\n"
    \o "fold_enrichment\tFold enrichment for this region against random Poisson distribution with local lambda\n"
    \o "-LOG10(qvalue)\tTransformed Qvalue -log10(Pvalue) for the binding region (e.g. if Qvalue=0.05, then this value should be 1.3)\n"

\* columns_as_xls_header putting the hash before every column name
ColumnsAsXlsHeaderAllHashed(self) ==
    [i \in 1..Len(self.data.columns) |-> "#" \o self.data.columns[i]]

\* MacsXLS.columns_as_xls_header
ColumnsAsXlsHeader(self) ==
    <<"#" \o self.data.columns[1]>> \o Tail(self.data.columns)

StrValues(strs) == [i \in 1..Len(strs) |-> PyStr(strs[i])]

\* The notes sheet without its heading row
NotesSheetWithoutHeading(self) ==
    LET notes1 == XLSWorkSheet(PyStr("Notes"))
        notes2 == WriteColumn(notes1, "A", StrValues(self.header), NextRow(notes1))
        notes3 == AppendRowText(notes2, "ADDITIONAL NOTES:")
    IN  AppendRowText(notes3,
            "By default regions are sorted by fold enrichment (in descending order)")

\* The notes sheet: a heading, the header lines of the input, then the
\* additional notes.
NotesSheet(self) ==
    LET notes1 == WriteRowText(XLSWorkSheet(PyStr("Notes")), 1, "MACS RUN NOTES:")
        notes2 == WriteColumn(notes1, "A", StrValues(self.header), NextRow(notes1))
        notes3 == AppendRowText(notes2, "ADDITIONAL NOTES:")
    IN  AppendRowText(notes3,
            "By default regions are sorted by fold enrichment (in descending order)")

\* The legends sheet
LegendsSheet == WriteColumnText(XLSWorkSheet(PyStr("Legends")), "A", legends_text)

\* "for line in macs_xls.data: data.append_row(line)"
RECURSIVE AppendRows(_, _, _)
AppendRows(sheet, rows, i) ==
    IF i > Len(rows) THEN sheet
    ELSE AppendRows(AppendRow(sheet, rows[i]), rows, i + 1)

\* The data sheet before the formulae columns are inserted: the column
\* names in row 1, then one row for each line of the table.
DataRows(self) ==
    AppendRows(WriteRow(XLSWorkSheet(self.name), 1, StrValues(ColumnsAsXlsHeader(self))),
               self.data.rows, 1)

\* One "insert_column(letter, text=...); write_column(letter, fill=..., from_row=2)"
InsertFormula(sheet, letter, text, fill) ==
    FillColumn(InsertColumn(sheet, letter, text), letter, fill, 2)

\* The formulae written for the sheet as it is before the columns are
\* inserted, where abs_summit is still column F
InsertFormulaeUnshifted(data) ==
    LET e == InsertFormula(data, "E", "chr", "=B?")
        f == InsertFormula(e, "F", "abs_summit-100", "=F?-100")
        g == InsertFormula(f, "G", "abs_summit+100", "=F?+100")
        h == InsertFormula(g, "H", "chr", "=B?")
        i == InsertFormula(h, "I", "summit-1", "=F?-1")
    IN  InsertFormula(i, "J", "summit", "=F?")

\* "Insert and populate formulae columns"
InsertFormulae(data) ==
    LET e == InsertFormula(data, "E", "chr", "=B?")
        f == InsertFormula(e, "F", "abs_summit-100", "=L?-100")
        g == InsertFormula(f, "G", "abs_summit+100", "=L?+100")
        h == InsertFormula(g, "H", "chr", "=B?")
        i == InsertFormula(h, "I", "summit-1", "=L?-1")
    IN  InsertFormula(i, "J", "summit", "=L?")

\* The sheets added in the order data, legends, notes
BuildWorkBookLegendsFirst(self) ==
    LET book1 == AddWorkSheet(<<>>, "data", InsertFormulae(DataRows(self)))
        book2 == AddWorkSheet(book1, "legends", LegendsSheet)
    IN  AddWorkSheet(book2, "notes", NotesSheet(self))

\* The workbook xls_for_macs2 builds from the sorted table: the sheets are
\* added in the order data, notes, legends.
BuildWorkBook(self) ==
    LET book1 == AddWorkSheet(<<>>, "data", InsertFormulae(DataRows(self)))
        book2 == AddWorkSheet(book1, "notes", NotesSheet(self))
    IN  AddWorkSheet(book2, "legends", LegendsSheet)

NoWorkBook == <<>>

\* The checks without the one for --broad
RejectsVersionOnly(self) ==
    IF StartsWith(self.macs_version.s, "1.") THEN OnlyMacs2Error ELSE ""

\* The checks xls_for_macs2 makes before anything else: the exception
\* raised, "" when the table passes both.
Rejects(self) ==
    IF StartsWith(self.macs_version.s, "1.") THEN OnlyMacs2Error
    ELSE IF WithBroadOption(self) THEN BroadError
    ELSE ""

\* xls_for_macs2 sorting the table before it checks the version and --broad
XlsForMacs2SortingFirst(self) ==
    IF SortOnRaises(self, "fold_enrichment") # ""
    THEN {[raised |-> SortOnRaises(self, "fold_enrichment"), self |-> self,
           xls |-> NoWorkBook]}
    ELSE {IF Rejects(sorted) # ""
          THEN [raised |-> Rejects(sorted), self |-> sorted, xls |-> NoWorkBook]
          ELSE [raised |-> "", self |-> sorted, xls |-> BuildWorkBook(sorted)] :
            sorted \in SortOn(self, "fold_enrichment", TRUE)}

\* xls_for_macs2 sorting in ascending order: reverse=False for reverse=True
XlsForMacs2Ascending(self) ==
    IF Rejects(self) # ""
    THEN {[raised |-> Rejects(self), self |-> self, xls |-> NoWorkBook]}
    ELSE IF SortOnRaises(self, "fold_enrichment") # ""
    THEN {[raised |-> SortOnRaises(self, "fold_enrichment"), self |-> self,
           xls |-> NoWorkBook]}
    ELSE {[raised |-> "", self |-> sorted, xls |-> BuildWorkBook(sorted)] :
            sorted \in SortOn(self, "fold_enrichment", FALSE)}

\* xls_for_macs2 writing the rows out in sorted order and leaving the table
\* as it was handed in
XlsForMacs2SortingACopy(self) ==
    IF Rejects(self) # ""
    THEN {[raised |-> Rejects(self), self |-> self, xls |-> NoWorkBook]}
    ELSE IF SortOnRaises(self, "fold_enrichment") # ""
    THEN {[raised |-> SortOnRaises(self, "fold_enrichment"), self |-> self,
           xls |-> NoWorkBook]}
    ELSE {[raised |-> "", self |-> self, xls |-> BuildWorkBook(sorted)] :
            sorted \in SortOn(self, "fold_enrichment", TRUE)}

\* xls_for_macs2(macs_xls): the outcomes possible, each the exception raised
\* ("" when the call returns), the table as the call leaves it, and the
\* workbook returned.
XlsForMacs2(self) ==
    IF Rejects(self) # ""
    THEN {[raised |-> Rejects(self), self |-> self, xls |-> NoWorkBook]}
    ELSE IF SortOnRaises(self, "fold_enrichment") # ""
    THEN {[raised |-> SortOnRaises(self, "fold_enrichment"), self |-> self,
           xls |-> NoWorkBook]}
    ELSE {[raised |-> "", self |-> sorted, xls |-> BuildWorkBook(sorted)] :
            sorted \in SortOn(self, "fold_enrichment", TRUE)}

----------------------------------------------------------------------------
(* The input files and arguments the model is run on *)

HeaderPool ==
    { "# This file is generated by MACS version 2.0.10.20131216 (tag:beta)",
      "# This file is generated by MACS version 1.4.0beta",
      "# Command line: callpeak --name=run1 --bw=300",
      "# Command line: callpeak --name=run1 --broad",
      "# name = run1",
      "  # d = 255 " }

ColumnPool ==
    { "chr\tstart\tend\tlength\tabs_summit\tpileup\tfold_enrichment",
      "chr\tstart\tend\tlength\tpileup\tfold_enrichment\tname",
      "start\tend\tchr\tabs_summit\tfold_enrichment\tpileup\tlength" }

DataPool ==
    { "chr1\t4785302\t4786361\t1060\t4785978\t31\t7",
      "chr2\t4857168\t4857694\t527\t4857404\t29\t12",
      "chrX\t4858211\t4858495\t285\t4858423\t18\t7" }

SortColumnPool == {"order", "chr", "fold_enrichment"}

\* reverse as passed to sort_on: TRUE, FALSE or left out
ReversePool == {"True", "False", "omitted"}

SeqUpTo(S, n) == UNION {[1..k -> S] : k \in 0..n}

Macs2ColumnLine == "chr\tstart\tend\tlength\tabs_summit\tpileup\tfold_enrichment"

OneDataLine == "chr1\t4785302\t4786361\t1060\t4785978\t31\t7"

\* Files that vary in their header lines, with one data line at most
HeaderInputs ==
    {h \o c \o d : h \in SeqUpTo(HeaderPool, MaxHeader),
                   c \in SeqUpTo(ColumnPool, 1),
                   d \in SeqUpTo({OneDataLine}, 1)}

\* Files read with a name given to the constructor
NamedInputs ==
    {h \o <<Macs2ColumnLine>> : h \in SeqUpTo(HeaderPool, MaxHeader)}

RowHeader == <<"# This file is generated by MACS version 2.0.10.20131216 (tag:beta)">>

\* Files that vary in their data lines
RowInputs ==
    {RowHeader \o c \o d : c \in SeqUpTo(ColumnPool, 1),
                           d \in SeqUpTo(DataPool, MaxRows)}

\* Header lines for the files that vary in their metadata: two name lines,
\* a blank line and a version outside MACS 1 and 2
MetadataPool ==
    { "# name = run1", "# name = run2", "",
      "# This file is generated by MACS version 3.0.0" }

\* Files that vary in the metadata lines that follow a first version line,
\* with no data lines
MetadataInputs ==
    {RowHeader \o h \o <<Macs2ColumnLine>> : h \in SeqUpTo(MetadataPool, MaxHeader)}

\* Data lines of as many fields as Macs2ColumnLine names, the first or the
\* last of them empty
EdgePool ==
    { "\t4785302\t4786361\t1060\t4785978\t31\t7",
      "chr2\t4857168\t4857694\t527\t4857404\t29\t" }

\* Files whose data lines have empty fields at their ends
EdgeInputs ==
    {RowHeader \o <<Macs2ColumnLine>> \o d : d \in SeqUpTo(EdgePool, 2)}

----------------------------------------------------------------------------
(* The state machine *)

NoCall == [op |-> "", column |-> "", reverse |-> ""]

Init ==
    /\ \/ input \in HeaderInputs /\ name_arg = PyNone
       \/ input \in NamedInputs /\ name_arg = PyStr("sample")
       \/ input \in RowInputs /\ name_arg = PyNone
       \/ input \in MetadataInputs /\ name_arg \in {PyNone, PyStr("sample")}
       \/ input \in EdgeInputs /\ name_arg = PyNone
    /\ pc = "start"
    /\ error = ""
    /\ macs = NewMacsXLS(name_arg)
    /\ xls = NoWorkBook
    /\ last = NoCall
    /\ exit_status = PyNone
    /\ saved = <<>>

\* macs = MacsXLS(fp=input, name=name_arg)
Load ==
    /\ pc = "start"
    /\ LET made == MacsXLS(input, name_arg)
       IN  /\ pc' = IF made.raised = "" THEN "loaded" ELSE "load_failed"
           /\ error' = made.raised
           /\ macs' = made.self
    /\ last' = [NoCall EXCEPT !.op = "MacsXLS"]
    /\ UNCHANGED <<input, name_arg, xls, exit_status, saved>>

\* macs.sort_on(column) or macs.sort_on(column, reverse=...)
CallSortOn(column, reverse_arg) ==
    /\ pc = "loaded"
    /\ macs' \in SortOn(macs, column, Reverse(reverse_arg))
    /\ error' = SortOnRaises(macs, column)
    /\ last' = [op |-> "sort_on", column |-> column, reverse |-> reverse_arg]
    /\ UNCHANGED <<input, name_arg, pc, xls, exit_status, saved>>

\* xls = xls_for_macs2(macs)
CallXlsForMacs2 ==
    /\ pc = "loaded"
    /\ \E out \in XlsForMacs2(macs) :
          /\ macs' = out.self
          /\ xls' = out.xls
          /\ error' = out.raised
    /\ last' = [NoCall EXCEPT !.op = "xls_for_macs2"]
    /\ UNCHANGED <<input, name_arg, pc, exit_status, saved>>

Next ==
    \/ Load
    \/ CallXlsForMacs2
    \/ \E column \in SortColumnPool, reverse_arg \in ReversePool :
          CallSortOn(column, reverse_arg)

Spec == Init /\ [][Next]_vars

----------------------------------------------------------------------------
(* The driver main(macs_file, xls_out): the file is loaded, converted and  *)
(* saved, one step after the other.  pc is "main" before the file is read, *)
(* "main_loaded" after MacsXLS returned, "main_converted" after            *)
(* xls_for_macs2 returned and "exited" when the run is over.               *)

MainInit ==
    /\ input \in HeaderInputs \cup RowInputs
    /\ name_arg = PyNone
    /\ pc = "main"
    /\ error = ""
    /\ macs = NewMacsXLS(name_arg)
    /\ xls = NoWorkBook
    /\ last = NoCall
    /\ exit_status = PyNone
    /\ saved = <<>>

\* Where main() is after "macs_xls = MacsXLS(macs_file)" and the test of
\* macs_version: an exception of the constructor is not caught and ends
\* the run with status 1, as does sys.exit(1).
MainAfterLoad(made) ==
    IF made.raised # ""
    THEN [pc |-> "exited", exit_status |-> PyInt(1)]
    ELSE IF made.self.macs_version = PyNone
    THEN [pc |-> "exited", exit_status |-> PyInt(1)]
    ELSE [pc |-> "main_loaded", exit_status |-> PyNone]

\* The except clause logging the error and going on without sys.exit(1)
MainAfterConvertLogsOnly(raised) ==
    [pc |-> "main_converted", exit_status |-> PyNone]

\* Where main() is after the try statement around xls_for_macs2: an
\* exception is logged and the run ends with sys.exit(1).
MainAfterConvert(raised) ==
    IF raised # ""
    THEN [pc |-> "exited", exit_status |-> PyInt(1)]
    ELSE [pc |-> "main_converted", exit_status |-> PyNone]

\* macs_xls = MacsXLS(macs_file), and the test of macs_version
MainLoad ==
    /\ pc = "main"
    /\ LET made == MacsXLS(input, name_arg)
       IN  /\ pc' = MainAfterLoad(made).pc
           /\ exit_status' = MainAfterLoad(made).exit_status
           /\ error' = made.raised
           /\ macs' = made.self
    /\ last' = [NoCall EXCEPT !.op = "MacsXLS"]
    /\ UNCHANGED <<input, name_arg, xls, saved>>

\* try: xls = xls_for_macs2(macs_xls) except Exception: ... sys.exit(1)
MainConvert ==
    /\ pc = "main_loaded"
    /\ \E out \in XlsForMacs2(macs) :
          /\ macs' = out.self
          /\ xls' = out.xls
          /\ error' = out.raised
          /\ pc' = MainAfterConvert(out.raised).pc
          /\ exit_status' = MainAfterConvert(out.raised).exit_status
    /\ last' = [NoCall EXCEPT !.op = "xls_for_macs2"]
    /\ UNCHANGED <<input, name_arg, saved>>

\* xls.save_as_xls(xls_out), after which main() returns
MainSave ==
    /\ pc = "main_converted"
    /\ saved' = Append(saved, xls)
    /\ pc' = "exited"
    /\ exit_status' = PyInt(0)
    /\ last' = [NoCall EXCEPT !.op = "save_as_xls"]
    /\ UNCHANGED <<input, name_arg, error, macs, xls>>

MainNext == MainLoad \/ MainConvert \/ MainSave

\* main() goes on to its next statement: every step of MainNext is one
MainStep ==
    /\ pc \in {"main", "main_loaded", "main_converted"}
    /\ pc' \in {"main_loaded", "main_converted", "exited"}
    /\ pc' # pc

\* The statements of main() run one after the other until it returns or
\* exits: a run that can go on to its next statement does.
MainSpec == MainInit /\ [][MainNext]_vars /\ WF_pc(MainStep)

----------------------------------------------------------------------------
(* Properties *)

Loaded == pc = "loaded"

Columns == macs.data.columns

Rows == macs.data.rows

\* The value a row holds in the column called name
Value(row, name) == Lookup(Columns, row, name)

OrderIsPosition == \A i \in 1..Len(Rows) : Value(Rows[i], "order") = PyInt(i)

\* A line the loader takes for a header line: a comment or a blank line
IsHeaderLine(rawline) == StartsWith(Strip(rawline), "#") \/ Strip(rawline) = ""

\* The lines of the input that are no header lines: the column-name line,
\* then the data lines
TableLines == SelectSeq(input, LAMBDA rawline : ~IsHeaderLine(rawline))

\* The values of the fields of a data line, one per column named
FieldsOf(rawline) ==
    LET fields == Split(Strip(rawline), "\t")
    IN  PadTo([i \in 1..Len(fields) |-> ConvertToType(fields[i])], Len(Columns) - 1)

\* C1: immediately after MacsXLS construction 'order' is the first column,
\* the table has one row for each non-comment, non-blank line after the
\* column-name line, row i (0-based) holds order = i+1, and the rows hold the
\* fields of those lines in the sequence of the input file.
C1_OrderAfterLoad ==
    (Loaded /\ last.op = "MacsXLS") =>
        /\ Columns[1] = "order"
        /\ Len(Rows) = Len(TableLines) - 1
        /\ \A i \in 1..Len(Rows) :
              /\ Rows[i][1] = PyInt(i)
              /\ Tail(Rows[i]) = FieldsOf(TableLines[i + 1])

C1_Witness ==
    /\ Loaded /\ last.op = "MacsXLS"
    /\ Len(Rows) >= 2
    /\ Rows[1] # [Rows[2] EXCEPT ![1] = PyInt(1)]

\* The rows follow one another on the column without increasing (reverse),
\* or without decreasing.
SortedOn(rows, column, reverse) ==
    \A i \in 1..Len(rows) - 1 :
        IF reverse
        THEN PyLessEq(Value(rows[i + 1], column), Value(rows[i], column))
        ELSE PyLessEq(Value(rows[i], column), Value(rows[i + 1], column))

\* C2 as claimed: after sort_on(column, reverse) has returned, adjacent rows
\* do not increase in the column when reverse is True or left out, do not
\* decrease when reverse is False, and the row at position i holds
\* order = i+1; this for every column name, 'order' included.
C2_SortedOnAnyColumn ==
    (Loaded /\ last.op = "sort_on" /\ error = "") =>
        /\ SortedOn(Rows, last.column, last.reverse # "False")
        /\ OrderIsPosition

\* C2 as amended: after sort_on(column, reverse) has returned the row at
\* position i holds order = i+1, and adjacent rows do not decrease in the
\* column when reverse is False and, for every column other than 'order'
\* (which the call has just renumbered upwards), do not increase in it when
\* reverse is True or left out; this after any sequence of calls.
C2_SortedAfterSortOn ==
    (Loaded /\ last.op = "sort_on" /\ error = "") =>
        /\ (last.column # "order" \/ last.reverse = "False") =>
              SortedOn(Rows, last.column, last.reverse # "False")
        /\ OrderIsPosition

C2_Witness ==
    /\ Loaded /\ last.op = "sort_on" /\ error = ""
    /\ last.column = "chr" /\ last.reverse = "omitted"
    /\ Len(Rows) >= 3
    /\ PyLess(Value(Rows[3], "chr"), Value(Rows[1], "chr"))
    /\ xls # NoWorkBook

CommandLineHasBroad ==
    /\ macs.command_line # PyNone
    /\ \E i \in 1..Len(SplitWords(macs.command_line.s)) :
          SplitWords(macs.command_line.s)[i] = "--broad"

NoCommandLineNoSummit ==
    /\ macs.command_line = PyNone
    /\ \A i \in 1..Len(Columns) : Columns[i] # "abs_summit"

\* C3 as claimed: with_broad_option is True exactly when the command line
\* is present and has the token '--broad', or is absent and no column is
\* called 'abs_summit', whatever the version.
C3_BroadIffAnyVersion ==
    Loaded => (WithBroadOption(macs) <=> (CommandLineHasBroad \/ NoCommandLineNoSummit))

\* C3 as amended: with_broad_option is True exactly when the version does
\* not start with '1.' and either the command line is present and has the
\* token '--broad', or it is absent and no column is called 'abs_summit'.
C3_BroadIff ==
    Loaded =>
        (WithBroadOption(macs) <=>
            /\ ~StartsWith(macs.macs_version.s, "1.")
            /\ (CommandLineHasBroad \/ NoCommandLineNoSummit))

C3_Witness ==
    /\ Loaded
    /\ StartsWith(macs.macs_version.s, "1.")
    /\ NoCommandLineNoSummit
    /\ ~WithBroadOption(macs)

\* A version line: one that begins with the words MACS writes before its
\* version
IsVersionLine(rawline) == StartsWith(rawline, VersionPrefix)

HasVersionLine == \E i \in 1..Len(input) : IsVersionLine(input[i])

\* The word that follows 'version' on the last version line of the input
VersionWord ==
    LET i == CHOOSE k \in 1..Len(input) :
                 /\ IsVersionLine(input[k])
                 /\ \A j \in k + 1..Len(input) : ~IsVersionLine(input[j])
    IN  SplitWords(From(input[i], Len(VersionPrefix)))[1]

\* C4: loading fails if and only if no line of the input begins with
\* '# This file is generated by MACS version '; every input with a version
\* line loads, also one with no column-name line or no data rows, and the
\* version reported is the word following 'version' on that line.
C4_FailsOnlyWithoutVersion ==
    (pc # "start") =>
        /\ (pc = "load_failed") <=> ~HasVersionLine
        /\ Loaded => macs.macs_version = PyStr(VersionWord)

\* C5: xls_for_macs2 raises, and returns no workbook, for every table whose
\* version starts with '1.' and for every table whose with_broad_option is
\* True.
C5_RejectsBeforeOutput ==
    (Loaded /\ last.op = "xls_for_macs2"
        /\ (StartsWith(macs.macs_version.s, "1.") \/ WithBroadOption(macs))) =>
            /\ error # ""
            /\ xls = NoWorkBook

C5_Witness ==
    /\ Loaded /\ last.op = "xls_for_macs2"
    /\ ~StartsWith(macs.macs_version.s, "1.")
    /\ WithBroadOption(macs)
    /\ error = BroadError
    /\ Len(Rows) > 0

\* xls_for_macs2 has just returned a workbook
Emitted == Loaded /\ last.op = "xls_for_macs2" /\ error = ""

DataSheet == WorkSheet(xls, "data")

\* The letter of the data sheet's column that was written for the table's
\* column number j: the columns from the fifth on have moved six to the right
SheetLetter(j) == ColumnLetter(IF j <= 4 THEN j ELSE j + 6)

\* The letter of the data sheet's leftmost column with this text in row 1,
\* "" when there is none
LetterOfHeader(text) ==
    LET hits == {c \in 1..Len(DataSheet.cells[1]) : DataSheet.cells[1][c] = PyStr(text)}
    IN  IF hits = {} THEN ""
        ELSE ColumnLetter(CHOOSE c \in hits : \A d \in hits : c <= d)

\* C6: the data sheet of a workbook returned for a table of N rows has its
\* header in row 1 and one row for each record in rows 2..N+1, holding the
\* record's values; down rows 2..N+1 the fold_enrichment values do not
\* increase, and the 'order' cell in column A of row r+1 is r.
C6_DataRowsSorted ==
    Emitted =>
        /\ LastRow(DataSheet) = Len(Rows) + 1
        /\ Cell(DataSheet, "A", 1) = PyStr("#order")
        /\ \A r \in 1..Len(Rows) :
              /\ Cell(DataSheet, "A", r + 1) = PyInt(r)
              /\ \A j \in 1..Len(Columns) :
                    Cell(DataSheet, SheetLetter(j), r + 1) = Rows[r][j]
        /\ \A r \in 2..Len(Rows) :
              PyLessEq(Cell(DataSheet, LetterOfHeader("fold_enrichment"), r + 1),
                       Cell(DataSheet, LetterOfHeader("fold_enrichment"), r))

C6_Witness ==
    /\ Emitted
    /\ Len(Rows) >= 3
    /\ PyLess(Cell(DataSheet, LetterOfHeader("fold_enrichment"), 4),
              Cell(DataSheet, LetterOfHeader("fold_enrichment"), 2))

\* The derived cells of row r render to formulae on columns L and B of the
\* same row.
FormulaeOfRow(r) ==
    /\ RenderCell(DataSheet, "E", r) = PyStr("=B" \o IntToStr(r))
    /\ RenderCell(DataSheet, "F", r) = PyStr("=L" \o IntToStr(r) \o "-100")
    /\ RenderCell(DataSheet, "G", r) = PyStr("=L" \o IntToStr(r) \o "+100")
    /\ RenderCell(DataSheet, "H", r) = PyStr("=B" \o IntToStr(r))
    /\ RenderCell(DataSheet, "I", r) = PyStr("=L" \o IntToStr(r) \o "-1")
    /\ RenderCell(DataSheet, "J", r) = PyStr("=L" \o IntToStr(r))

\* Columns L and B of the finished sheet are the abs_summit and chr columns,
\* and hold in row r the values of the record written there.
FormulaeTargets(r) ==
    /\ Cell(DataSheet, "L", 1) = PyStr("abs_summit")
    /\ Contains(Columns, "abs_summit")
    /\ Cell(DataSheet, "L", r) = Value(Rows[r - 1], "abs_summit")
    /\ Cell(DataSheet, "B", 1) = PyStr("chr")
    /\ Cell(DataSheet, "B", r) = Value(Rows[r - 1], "chr")

\* C7 as claimed: for every table xls_for_macs2 accepts and every data row
\* r in 2..N+1, columns F, G, I, J render to '=Lr-100', '=Lr+100', '=Lr-1',
\* '=Lr', column L being the one headed 'abs_summit' that holds the record's
\* abs_summit, and E and H render to '=Br', column B being 'chr'.
C7_FormulaeForAnyAccepted ==
    Emitted => \A r \in 2..Len(Rows) + 1 : FormulaeOfRow(r) /\ FormulaeTargets(r)

\* The input columns are laid out as MACS2 writes them: 'chr' first and
\* 'abs_summit' fifth.
Macs2Layout ==
    /\ Len(Columns) >= 6
    /\ Columns[2] = "chr"
    /\ Columns[6] = "abs_summit"

\* C7 as amended: for every table xls_for_macs2 accepts whose first input
\* column is 'chr' and whose fifth is 'abs_summit', and every data row r in
\* 2..N+1, columns F, G, I, J render to '=Lr-100', '=Lr+100', '=Lr-1', '=Lr',
\* column L being the one headed 'abs_summit' that holds the record's
\* abs_summit, and E and H render to '=Br', column B being 'chr'.
C7_FormulaeTargets ==
    (Emitted /\ Macs2Layout) =>
        \A r \in 2..Len(Rows) + 1 : FormulaeOfRow(r) /\ FormulaeTargets(r)

C7_Witness ==
    /\ Emitted
    /\ Macs2Layout
    /\ Len(Rows) >= 2
    /\ FormulaeOfRow(3) /\ FormulaeTargets(3)

\* C8: every workbook xls_for_macs2 returns has exactly three sheets, in the
\* order 'data', 'notes', 'legends'.
C8_ThreeSheets ==
    (xls # NoWorkBook) =>
        /\ Len(xls) = 3
        /\ xls[1].name = "data" /\ xls[2].name = "notes" /\ xls[3].name = "legends"

C8_Witness == Emitted /\ xls # NoWorkBook /\ Len(Rows) = 0

InsertedHeaders == <<"chr", "abs_summit-100", "abs_summit+100", "chr", "summit-1", "summit">>

\* C9: row 1 of the finished data sheet is '#order' in A, the first three
\* input columns in B..D, the six inserted headers in E..J in the order they
\* were inserted, and every input column from the fourth on six columns to
\* the right of where it was written; only the first cell has the '#'.
C9_HeaderRow ==
    Emitted =>
        /\ Cell(DataSheet, "A", 1) = PyStr("#" \o Columns[1])
        /\ \A j \in 2..Len(Columns) :
              Cell(DataSheet, ColumnLetter(IF j <= 4 THEN j ELSE j + 6), 1) = PyStr(Columns[j])
        /\ \A k \in 1..6 :
              Cell(DataSheet, ColumnLetter(4 + k), 1) = PyStr(InsertedHeaders[k])
        /\ Len(DataSheet.cells[1]) = Len(Columns) + 6

C9_Witness ==
    /\ Emitted
    /\ Len(Columns) = 8
    /\ Cell(DataSheet, "N", 1) = PyStr(Columns[8])
    /\ Cell(DataSheet, "K", 1) = PyStr(Columns[5])

\* The records of a table whatever their order: each row without its
\* 'order' value, and how many times it occurs
Records(rows) == {Tail(rows[i]) : i \in 1..Len(rows)}

Count(rows, record) == Cardinality({i \in 1..Len(rows) : Tail(rows[i]) = record})

SameRecords(before, after) ==
    /\ Len(before) = Len(after)
    /\ \A record \in Records(before) \cup Records(after) :
          Count(before, record) = Count(after, record)

\* The step is a call of xls_for_macs2 that returns a workbook: only
\* CallXlsForMacs2 leaves last.op = "xls_for_macs2".
XlsForMacs2Returns == Loaded /\ last'.op = "xls_for_macs2" /\ error' = ""

\* C10 as claimed: a successful call of xls_for_macs2 leaves the peak table
\* with the row sequence and the 'order' values it had before the call.
C10_TableUntouched ==
    [][XlsForMacs2Returns => macs'.data.rows = macs.data.rows]_vars

\* C10 as amended: a successful call of xls_for_macs2 has no side effect
\* other than producing the returned workbook and sorting the peak table in
\* place: after the call the table holds the records it held before, in an
\* order in which fold_enrichment does not increase, with 'order' renumbered
\* 1..N; its column names, header lines, version, name and command line are
\* as before.
C10_TableOnlySorted ==
    [][XlsForMacs2Returns =>
          /\ SameRecords(macs.data.rows, macs'.data.rows)
          /\ \A i \in 1..Len(macs'.data.rows) - 1 :
                PyLessEq(Lookup(macs'.data.columns, macs'.data.rows[i + 1], "fold_enrichment"),
                         Lookup(macs'.data.columns, macs'.data.rows[i], "fold_enrichment"))
          /\ \A i \in 1..Len(macs'.data.rows) :
                Lookup(macs'.data.columns, macs'.data.rows[i], "order") = PyInt(i)
          /\ [macs' EXCEPT !.data.rows = macs.data.rows] = macs]_vars

\* The rows as the constructor left them
LoadedRows == MacsXLS(input, name_arg).self.data.rows

C10_Witness ==
    /\ Emitted
    /\ Len(Rows) >= 2
    /\ Tail(Rows[1]) # Tail(LoadedRows[1])

\* C11: in main() the output is saved at most once and only after
\* xls_for_macs2 has returned a workbook; when loading finds no version or
\* xls_for_macs2 rejects the table (version 1.* or broad), the run is over
\* with exit status 1 and nothing saved; and every run ends.
C11_SavedOnlyAfterWorkbook ==
    /\ [][saved' # saved =>
            /\ saved = <<>>
            /\ pc = "main_converted" /\ error = "" /\ xls # NoWorkBook
            /\ saved' = <<xls>>]_vars
    /\ [](error \in {VersionError, OnlyMacs2Error, BroadError} =>
            (pc = "exited" /\ exit_status = PyInt(1) /\ saved = <<>>))
    /\ [][pc = "exited" => UNCHANGED vars]_vars
    /\ <>(pc = "exited")

C11_Witness ==
    /\ pc = "exited"
    /\ error = BroadError
    /\ exit_status = PyInt(1)
    /\ saved = <<>>
    /\ Len(Rows) >= 2

\* The lines of the input the loader takes for header lines, as they are in
\* the input
HeaderLines == SelectSeq(input, IsHeaderLine)

NotesOf == WorkSheet(xls, "notes")

\* The header list is written down column A of the notes sheet, from row 2
HeaderInNotes ==
    \A i \in 1..Len(macs.header) : Cell(NotesOf, "A", i + 1) = PyStr(macs.header[i])

\* C12 as claimed: the header list of a loaded file is the comment and blank
\* lines of the input in input order, each character for character as it
\* is in the input, leading and trailing whitespace included, and these are
\* the lines written to the notes sheet.
C12_HeaderVerbatim ==
    /\ Loaded => macs.header = HeaderLines
    /\ Emitted => HeaderInNotes

\* C12 as amended: the header list of a loaded file is the lines of the
\* input that begin with '#' or are empty once their leading and trailing
\* whitespace is stripped, in input order, each kept without that
\* whitespace, and these are the lines written to the notes sheet.
C12_HeaderStripped ==
    /\ Loaded =>
          /\ Len(macs.header) = Len(HeaderLines)
          /\ \A i \in 1..Len(HeaderLines) : macs.header[i] = Strip(HeaderLines[i])
    /\ Emitted => HeaderInNotes

C12_Witness ==
    /\ Emitted
    /\ Contains(input, "  # d = 255 ")
    /\ \E i \in 1..Len(macs.header) :
          macs.header[i] = "# d = 255" /\ Cell(NotesOf, "A", i + 1) = PyStr("# d = 255")

\* C13 as claimed: the notes sheet of an emitted workbook is the header
\* lines in input order, one a row in column A, and two static lines, its
\* rows numbering the header lines plus two.
C13_NotesHeaderPlusTwo ==
    Emitted =>
        /\ LastRow(NotesOf) = Len(macs.header) + 2
        /\ \E first \in 1..LastRow(NotesOf) :
              \A i \in 1..Len(macs.header) :
                  Cell(NotesOf, "A", first + i - 1) = PyStr(macs.header[i])

\* C13 as amended: the notes sheet of an emitted workbook is, in column A,
\* the heading 'MACS RUN NOTES:' in row 1, the header lines in input order
\* from row 2, then the two static lines 'ADDITIONAL NOTES:' and 'By default
\* regions are sorted by fold enrichment (in descending order)'; its rows
\* number the header lines plus three.
C13_NotesHeaderPlusThree ==
    Emitted =>
        /\ LastRow(NotesOf) = Len(macs.header) + 3
        /\ \A r \in 1..LastRow(NotesOf) : Len(NotesOf.cells[r]) = 1
        /\ Cell(NotesOf, "A", 1) = PyStr("MACS RUN NOTES:")
        /\ HeaderInNotes
        /\ Cell(NotesOf, "A", Len(macs.header) + 2) = PyStr("ADDITIONAL NOTES:")
        /\ Cell(NotesOf, "A", Len(macs.header) + 3) =
              PyStr("By default regions are sorted by fold enrichment (in descending order)")

C13_Witness ==
    /\ Emitted
    /\ Len(macs.header) = 2
    /\ macs.header[2] = ""
    /\ LastRow(NotesOf) = 5

\* The tab-separated fields of a line as it is in the input, empty first and
\* last fields included, as the values a row stores
RawFieldsOf(rawline) ==
    LET fields == Split(rawline, "\t")
    IN  [j \in 1..Len(fields) |-> ConvertToType(fields[j])]

\* Every data line of the input has as many tab-separated fields as the
\* column-name line
SameFieldCounts ==
    \A i \in 2..Len(TableLines) :
        Len(Split(TableLines[i], "\t")) = Len(Split(TableLines[1], "\t"))

\* C14: for an input whose data lines each have as many tab-separated fields
\* as the column-name line, empty first or last fields included, every
\* stored row has as many fields as there are column names with 'order',
\* and holds the fields of a data line each under the column at its
\* position; after load and after any sort_on calls.
C14_FieldsUnderTheirColumns ==
    (Loaded /\ SameFieldCounts) =>
        \A r \in 1..Len(Rows) :
            /\ Len(Rows[r]) = Len(Columns)
            /\ \E i \in 2..Len(TableLines) : Tail(Rows[r]) = RawFieldsOf(TableLines[i])

\* C15: for every loaded file whose version starts with '1.',
\* with_broad_option is False, whether or not a command line is present,
\* has '--broad', or an 'abs_summit' column exists.
C15_NeverBroadForMacs1 ==
    (Loaded /\ StartsWith(macs.macs_version.s, "1.")) => ~WithBroadOption(macs)

C15_Witness ==
    /\ Loaded
    /\ StartsWith(macs.macs_version.s, "1.")
    /\ CommandLineHasBroad
    /\ ~Contains(Columns, "abs_summit")
    /\ ~WithBroadOption(macs)

\* C16: xls_for_macs2 raises an error, and returns no workbook, for every
\* table whose version does not start with '2.', not only for the versions
\* that start with '1.'.
C16_RejectsAllButMacs2 ==
    (Loaded /\ last.op = "xls_for_macs2" /\ ~StartsWith(macs.macs_version.s, "2.")) =>
        (error # "" /\ xls = NoWorkBook)

\* The step is a call of xls_for_macs2 that rejects the table.
XlsForMacs2Rejects ==
    Loaded /\ last'.op = "xls_for_macs2" /\ error' \in {OnlyMacs2Error, BroadError}

\* C17: a call of xls_for_macs2 that rejects the table (version 1.* or
\* broad) leaves the table as it was: the same rows in the same sequence
\* with the same 'order' values.
C17_RejectedTableUnchanged ==
    [][XlsForMacs2Rejects => macs' = macs]_vars

C17_Witness ==
    /\ Loaded /\ last.op = "xls_for_macs2"
    /\ error = BroadError
    /\ Len(Rows) >= 2
    /\ PyLess(Value(Rows[1], "fold_enrichment"), Value(Rows[2], "fold_enrichment"))

\* C18: after any sequence of sort_on calls the rows, their 'order' values
\* left aside, are the rows loaded from the input, each as many times; and
\* in every state sort_on('order', reverse=False) leaves the rows and
\* their 'order' values as they are.
C18_SortOnlyPermutes ==
    Loaded =>
        /\ SameRecords(LoadedRows, Rows)
        /\ SortOn(macs, "order", FALSE) = {macs}

C18_Witness ==
    /\ Loaded
    /\ last = [op |-> "sort_on", column |-> "order", reverse |-> "False"]
    /\ Len(Rows) >= 2
    /\ Tail(Rows[1]) # Tail(LoadedRows[1])

\* The places in the input of the lines that begin with the prefix once
\* stripped
LinesWith(prefix) == {i \in 1..Len(input) : StartsWith(Strip(input[i]), prefix)}

FirstOf(S) == CHOOSE i \in S : \A j \in S : i <= j

LastOf(S) == CHOOSE i \in S : \A j \in S : j <= i

====
